---- MODULE Spec2Model ----
(***************************************************************************)
(* Model of kitty/gl.h: the host-callable wrappers over the native OpenGL  *)
(* API.  Every handler of the method table is written down as the sequence *)
(* of statements of its C body (a "program"); one interpreter gives each   *)
(* statement the meaning it has in the source.  A call of a handler is one *)
(* action that runs the whole body.  The native driver is the environment: *)
(* it keeps a queue of pending error codes and a counter of the names it   *)
(* has generated, and may record an error at any native call.              *)
(*                                                                         *)
(* Environment assumptions: the non-Apple (GLEW) build is modelled; the    *)
(* host runtime never fails to allocate a result object (PyLong, PyTuple,  *)
(* PyBytes), while the scratch allocators PyMem_Calloc / PyMem_Malloc may  *)
(* fail.                                                                   *)
(***************************************************************************)
EXTENDS Integers, Sequences, FiniteSets, TLC

\* ------------------------------------------------------------ bounds
MaxPending == 2     \* error codes the driver can hold pending
MaxIssued  == 0     \* generate calls are taken while at most this many names are issued
MaxN       == 2     \* largest small batch size tried (besides the limit itself)
MaxAns     == 1     \* largest integer result a driver query reports
MaxLog     == 2     \* largest info-log length the driver reports

\* ------------------------------------------------- program constants
GL_NO_ERROR                      == 0
GL_INVALID_ENUM                  == 1280
GL_INVALID_VALUE                 == 1281
GL_INVALID_OPERATION             == 1282
GL_STACK_OVERFLOW                == 1283
GL_STACK_UNDERFLOW               == 1284
GL_OUT_OF_MEMORY                 == 1285
GL_INVALID_FRAMEBUFFER_OPERATION == 1286
\* the capacity of the scratch array of the batch allocators
BatchLimit == 256
\* the margin added to the reported info-log length
LogMargin  == 10
\* what PyLong_AsUnsignedLong returns on a conversion error, (unsigned long)-1,
\* stood for by the largest integer available here
ULONG_MAX  == 2147483647

KnownCodes == {GL_INVALID_ENUM, GL_INVALID_VALUE, GL_INVALID_OPERATION,
               GL_STACK_OVERFLOW, GL_STACK_UNDERFLOW, GL_OUT_OF_MEMORY,
               GL_INVALID_FRAMEBUFFER_OPERATION}
\* codes SET_GL_ERR has no case for (GL_CONTEXT_LOST and a vendor code)
UnknownCodes == {1287, 1288}
AllCodes == KnownCodes \cup UnknownCodes
\* the codes the driver raises in the stateful specification
DriverCodes == {GL_INVALID_VALUE}

VARIABLES
    enable_error_checking,  \* static int _enable_error_checking
    glew,                   \* outcome of the capability bootstrap
    caps,                   \* optional capabilities GLEW found
    glerr,                  \* driver: queue of pending error codes
    issued,                 \* driver: number of object names generated
    pyerr,                  \* host error indicator when the last call returned
    last                    \* the last call: handler, arguments, events, result

vars == <<enable_error_checking, glew, caps, glerr, issued, pyerr, last>>

NoErr == [type |-> "None", msg |-> ""]
Err(t, m) == [type |-> t, msg |-> m]

\* results handed back to the host
NULL     == [kind |-> "NULL", v |-> <<>>]
PyNone   == [kind |-> "None", v |-> <<>>]
PyInt(x) == [kind |-> "int", v |-> <<x>>]
PyTuple(s) == [kind |-> "tuple", v |-> s]
PyBytes(s) == [kind |-> "bytes", v |-> s]

\* What a call did, in order: each native call, error query, host-runtime call and
\* lock operation, with whether the host lock was held at that moment.
Event(kind, name, st, val) == [k |-> kind, e |-> name, gil |-> st.gil, v |-> val]
Log(st, kind, name, val) == [st EXCEPT !.ev = Append(@, Event(kind, name, st, val))]
Return(st, r) == [st EXCEPT !.done = TRUE, !.ret = r]

\* ------------------------------------------------------ the driver
\* The code the nat-th native call of this handler call records (0: none).
Raised(st) == IF st.orc.at = st.nat + 1 THEN st.orc.code ELSE GL_NO_ERROR

Record(q, code) ==
    IF code # GL_NO_ERROR /\ Len(q) < MaxPending THEN Append(q, code) ELSE q

\* A native call: the driver runs it and may record an error.
Native(st, name) ==
    LET code == Raised(st)
    IN  [Log(st, "native", name, code) EXCEPT !.nat = @ + 1, !.glerr = Record(@, code),
                                    !.own = IF code # GL_NO_ERROR THEN TRUE ELSE @]

\* glGetError: hands out one pending code and clears it.
glGetError(q) == IF q = <<>> THEN GL_NO_ERROR ELSE Head(q)
AfterGetError(q) == IF q = <<>> THEN q ELSE Tail(q)

\* ------------------------------------------------- error translator
Translate(code) ==
    CASE code = GL_NO_ERROR -> NoErr
      [] code = GL_INVALID_ENUM ->
            Err("ValueError", "An enum value is invalid (GL_INVALID_ENUM)")
      [] code = GL_INVALID_VALUE ->
            Err("ValueError", "An numeric value is invalid (GL_INVALID_VALUE)")
      [] code = GL_INVALID_OPERATION ->
            Err("ValueError", "This operation is not allowed in the current state (GL_INVALID_OPERATION)")
      [] code = GL_INVALID_FRAMEBUFFER_OPERATION ->
            Err("ValueError", "The framebuffer object is not complete (GL_INVALID_FRAMEBUFFER_OPERATION)")
      [] code = GL_OUT_OF_MEMORY ->
            Err("MemoryError", "There is not enough memory left to execute the command. (GL_OUT_OF_MEMORY)")
      [] code = GL_STACK_UNDERFLOW ->
            Err("OverflowError", "An attempt has been made to perform an operation that would cause an internal stack to underflow. (GL_STACK_UNDERFLOW)")
      [] code = GL_STACK_OVERFLOW ->
            Err("OverflowError", "An attempt has been made to perform an operation that would cause an internal stack to underflow. (GL_STACK_OVERFLOW)")
      [] OTHER ->
            Err("RuntimeError", "An unknown OpenGL error occurred.")

\* A bug: the switch has no default case.
SET_GL_ERR_nodefault(st) ==
    LET code == glGetError(st.glerr)
        s1 == [Log(st, "query", "glGetError", code) EXCEPT !.glerr = AfterGetError(@),
                                                           !.queries = @ + 1]
    IN  IF code \in KnownCodes THEN [s1 EXCEPT !.pyerr = Translate(code)] ELSE s1

\* A bug: the error state is queried until it is empty, and the last code wins.
RECURSIVE SET_GL_ERR_drain(_)
SET_GL_ERR_drain(st) ==
    LET code == glGetError(st.glerr)
        s1 == [Log(st, "query", "glGetError", code) EXCEPT !.glerr = AfterGetError(@),
                                                           !.queries = @ + 1]
    IN  IF code = GL_NO_ERROR THEN s1
        ELSE SET_GL_ERR_drain([s1 EXCEPT !.pyerr = Translate(code)])

\* SET_GL_ERR: one query of the native error state; a non-zero code sets the
\* host error indicator (PyErr_SetString replaces an indicator already set).
SET_GL_ERR(st) ==
    LET code == glGetError(st.glerr)
        s1 == [Log(st, "query", "glGetError", code) EXCEPT !.glerr = AfterGetError(@),
                                                  !.queries = @ + 1]
    IN  IF code = GL_NO_ERROR THEN s1 ELSE [s1 EXCEPT !.pyerr = Translate(code)]

\* CHECK_ERROR: if (_enable_error_checking) { SET_GL_ERR; if (PyErr_Occurred()) return NULL; }
CHECK_ERROR(st) ==
    IF st.checking = 1
    THEN LET s1 == SET_GL_ERR(st)
         IN  IF s1.pyerr # NoErr THEN Return(s1, NULL) ELSE s1
    ELSE st


\* --------------------------------------------------- value marshaler
TypeErr == Err("TypeError", "an integer is required")

\* if (!PyArg_ParseTuple(args, fmt, ...)) return NULL;
PyArg_ParseTuple(st) ==
    LET s1 == Log(st, "host", "PyArg_ParseTuple", 0)
    IN  IF st.arg.ok THEN s1
        ELSE Return([s1 EXCEPT !.pyerr = TypeErr], NULL)

\* unsigned long x = PyLong_AsUnsignedLong(val);   (no test of the result)
PyLong_AsUnsignedLong(st) ==
    LET s1 == Log(st, "host", "PyLong_AsUnsignedLong", 0)
    IN  IF st.arg.ok THEN [s1 EXCEPT !.n = st.arg.n]
        ELSE [s1 EXCEPT !.n = ULONG_MAX, !.pyerr = TypeErr]

\* long x = PyLong_AsLong(val);   (no test of the result)
PyLong_AsLong(st) ==
    LET s1 == Log(st, "host", "PyLong_AsLong", 0)
    IN  IF st.arg.ok THEN [s1 EXCEPT !.n = st.arg.n]
        ELSE [s1 EXCEPT !.n = -1, !.pyerr = TypeErr]

\* PyLong_AsVoidPtr(l): the address held by the k-th pointer argument (0: NULL)
PyLong_AsVoidPtr(st, k) ==
    [Log(st, "host", "PyLong_AsVoidPtr", st.arg.ptr[k]) EXCEPT !.data = st.arg.ptr[k],
                                                       !.null = @ \/ st.arg.ptr[k] = 0]

\* if (data == NULL) { PyErr_SetString(PyExc_TypeError, "Not a valid data pointer"); return NULL; }
NullCheck(st) ==
    IF st.data = 0
    THEN Return([st EXCEPT !.pyerr = Err("TypeError", "Not a valid data pointer")], NULL)
    ELSE st

\* ------------------------------------------------ blocking-call gate
\* A bug: the lock is not taken back after the native call.
Py_END_ALLOW_THREADS_norelock(st) == Log(st, "lock", "Py_END_ALLOW_THREADS", 0)

Py_BEGIN_ALLOW_THREADS(st) == [Log(st, "lock", "Py_BEGIN_ALLOW_THREADS", 0) EXCEPT !.gil = FALSE]
Py_END_ALLOW_THREADS(st) == Log([st EXCEPT !.gil = TRUE], "lock", "Py_END_ALLOW_THREADS", 0)

\* ------------------------------------------- batch resource allocator
\* A bug: the limit test is off by one.
BatchCheck_offbyone(st, what) ==
    IF st.n > BatchLimit + 1
    THEN Return([st EXCEPT !.pyerr = Err("ValueError", what)], NULL)
    ELSE st

\* if (n > 256) { PyErr_SetString(PyExc_ValueError, "Generating more than 256 ..."); return NULL; }
BatchCheck(st, what) ==
    IF st.n > BatchLimit
    THEN Return([st EXCEPT !.pyerr = Err("ValueError", what)], NULL)
    ELSE st

\* The i-th of n names the driver generates, after `base` names issued before.
DriverName(base, n, i, desc) == IF desc THEN base + n + 1 - i ELSE base + i

\* glGen*(n, arrays): the driver writes n fresh names into arrays (GLuint arrays[256] = {0}),
\* or records an error and writes nothing.
glGen(st, name) ==
    LET code == Raised(st)
        k == IF code = GL_NO_ERROR THEN st.n ELSE 0
        s1 == Native(st, name)
    IN  [s1 EXCEPT !.arrays = [i \in 1..BatchLimit |->
                                  IF i <= k THEN DriverName(st.issued, k, i, st.orc.desc) ELSE 0],
                   !.written = [i \in 1..k |-> DriverName(st.issued, k, i, st.orc.desc)],
                   !.overrun = k > BatchLimit,
                   !.issued = @ + k]

\* arrays[i - 1]; what lies past the end of the array reads as 0 here.
ArrayAt(st, i) == IF i \in DOMAIN st.arrays THEN st.arrays[i] ELSE 0

\* A bug: the sequence is built back to front.
ReturnHandles_reversed(st) ==
    IF st.n = 1 THEN Return(st, PyInt(ArrayAt(st, 1)))
    ELSE Return(st, PyTuple([i \in 1..st.n |-> ArrayAt(st, st.n + 1 - i)]))

\* if (n == 1) return PyLong_FromUnsignedLong(arrays[0]);
\* ans = PyTuple_New(n); for (i = 0; i < n; i++) PyTuple_SET_ITEM(ans, i, PyLong(arrays[i])); return ans;
ReturnHandles(st) ==
    IF st.n = 1 THEN Return(st, PyInt(ArrayAt(st, 1)))
    ELSE Return(st, PyTuple([i \in 1..st.n |-> ArrayAt(st, i)]))

\* --------------------------------------------------- queries, creation
\* ans = gl...(...): the driver hands back a value (0 for a failed creation or a null string)
glAns(st, name) == [Native(st, name) EXCEPT !.ans = st.orc.ans]

\* if (!ans) { SET_GL_ERR; return NULL; }
FailIfNull(st) == IF st.ans = 0 THEN Return(SET_GL_ERR(st), NULL) ELSE st

\* ---------------------------------------------------- log retrieval
\* gl*iv(id, GL_INFO_LOG_LENGTH, &log_len): log_len is written unless the call fails
glLogLength(st, name) ==
    LET code == Raised(st)
    IN  [Native(st, name) EXCEPT !.log_len = IF code = GL_NO_ERROR THEN st.orc.loglen ELSE @,
                                 !.reported = IF code = GL_NO_ERROR THEN st.orc.loglen ELSE @]

\* A bug: the buffer is sized to the reported length, with no margin.
Capacity_nomargin(log_len) == log_len

\* buf = PyMem_Calloc(log_len + 10, sizeof(GLchar)); if (buf == NULL) return PyErr_NoMemory();
Capacity(log_len) == log_len + LogMargin

PyMem_Calloc(st) ==
    LET s1 == Log(st, "host", "PyMem_Calloc", Capacity(st.log_len))
    IN  IF st.orc.oom
        THEN Return([s1 EXCEPT !.pyerr = Err("MemoryError", "")], NULL)
        ELSE [s1 EXCEPT !.buf = [i \in 1..Capacity(st.log_len) |-> 0],
                        !.cap = Capacity(st.log_len), !.allocs = @ + 1]

\* The bufSize argument handed to gl*InfoLog.
FetchLimit(st) == st.log_len

\* gl*InfoLog(id, log_len, &log_len, buf): the driver writes at most bufSize - 1
\* characters and a terminator, and reports the characters written in log_len;
\* a failed call writes nothing and leaves log_len alone.
glFetchLog(st, name) ==
    LET code == Raised(st)
        lim == FetchLimit(st)
        w == IF st.orc.w < lim THEN st.orc.w ELSE IF lim > 0 THEN lim - 1 ELSE 0
        s1 == [Native(st, name) EXCEPT !.limit = lim]
    IN  IF code # GL_NO_ERROR THEN [s1 EXCEPT !.fetched = FALSE]
        ELSE [s1 EXCEPT !.fetched = TRUE,
                        !.wrote = [i \in 1..w |-> 64 + i],
                        !.overrun = (lim > 0 /\ w + 1 > st.cap),
                        !.buf = [i \in 1..Len(st.buf) |-> IF i <= w THEN 64 + i ELSE 0],
                        !.log_len = w]

\* PyObject *ans = PyBytes_FromStringAndSize(buf, log_len);
PyBytes_FromStringAndSize(st) ==
    [Log(st, "host", "PyBytes_FromStringAndSize", st.log_len) EXCEPT
        !.obj = PyBytes([i \in 1..st.log_len |-> IF i <= Len(st.buf) THEN st.buf[i] ELSE -1])]

\* uint8_t *src = PyMem_Malloc(5 * width * height * num_levels); if (src == NULL) return PyErr_NoMemory();
PyMem_Malloc(st) ==
    LET s1 == Log(st, "host", "PyMem_Malloc", 0)
    IN  IF st.orc.oom
        THEN Return([s1 EXCEPT !.pyerr = Err("MemoryError", "")], NULL)
        ELSE [s1 EXCEPT !.allocs = @ + 1]

\* PyMem_Free(buf);
PyMem_Free(st) == [Log(st, "host", "PyMem_Free", 0) EXCEPT !.frees = @ + 1]

\* ------------------------------------------------------ capabilities
\* if (!GLEW_ARB_copy_image) { PyErr_SetString(PyExc_RuntimeError, "..."); return NULL; }
RequireCopyImage(st) ==
    IF "ARB_copy_image" \in st.caps THEN st
    ELSE Return([st EXCEPT !.pyerr =
            Err("RuntimeError", "OpenGL is missing the required ARB_copy_image extension")], NULL)

\* if (GLEW_VERSION_4_5) glNamedBufferData(...);
\* else { glBindBuffer(GL_TEXTURE_BUFFER, target); glBufferData(...); glBindBuffer(GL_TEXTURE_BUFFER, 0); }
BufferUpload(st) ==
    IF "VERSION_4_5" \in st.caps THEN Native(st, "glNamedBufferData")
    ELSE Native(Native(Native(st, "glBindBuffer"), "glBufferData"), "glBindBuffer")


\* A native call that is handed the decoded pointer(s).
NativePtr(st, name) == [Native(st, name) EXCEPT !.nullpass = st.null]

\* ------------------------------------------------ error-checking mode
\* _enable_error_checking = PyObject_IsTrue(val) ? 1 : 0;   (IsTrue: 1, 0, or -1 on error)
SetChecking(st) ==
    LET s1 == Log(st, "host", "PyObject_IsTrue", st.arg.truth)
        s2 == IF st.arg.truth = -1 THEN [s1 EXCEPT !.pyerr = TypeErr] ELSE s1
    IN  [s2 EXCEPT !.checking = IF st.arg.truth # 0 THEN 1 ELSE 0]

\* ----------------------------------------------- capability bootstrap
\* GLenum err = glewInit(); if (err != GLEW_OK) { PyErr_Format(...); return NULL; }
\* glew is a ghost of the model: what the bootstrap reported to its caller.
GlewInitCall(st) ==
    LET s1 == Log(st, "glew", "glewInit", 0)
    IN  IF st.orc.loader
        THEN [s1 EXCEPT !.caps = st.orc.found, !.glew = "ok"]
        ELSE Return([s1 EXCEPT !.glew = "failed",
                               !.pyerr = Err("RuntimeError", "GLEW init failed")], NULL)

\* ARB_TEST(name): if (!GLEW_ARB_##name) { PyErr_Format(PyExc_RuntimeError, ...); return NULL; }
ARB_TEST(st, name) ==
    IF name \in st.caps THEN st
    ELSE Return([st EXCEPT !.glew = "failed",
                           !.pyerr = Err("RuntimeError", name)], NULL)

\* ---------------------------------------------------- the interpreter
Step(ins, st) ==
    CASE ins[1] = "PARSE"          -> PyArg_ParseTuple(st)
      [] ins[1] = "ASULONG"        -> PyLong_AsUnsignedLong(st)
      [] ins[1] = "ASLONG"         -> PyLong_AsLong(st)
      [] ins[1] = "ASPTR"          -> PyLong_AsVoidPtr(st, ins[2])
      [] ins[1] = "NULLCHECK"      -> NullCheck(st)
      [] ins[1] = "BEGIN_ALLOW"    -> Py_BEGIN_ALLOW_THREADS(st)
      [] ins[1] = "END_ALLOW"      -> Py_END_ALLOW_THREADS(st)
      [] ins[1] = "GL"             -> Native(st, ins[2])
      [] ins[1] = "GLP"            -> NativePtr(st, ins[2])
      [] ins[1] = "CHECK_ERROR"    -> CHECK_ERROR(st)
      [] ins[1] = "RETURN_NONE"    -> Return(st, PyNone)
      [] ins[1] = "BATCH"          -> BatchCheck(st, ins[2])
      [] ins[1] = "GLGEN"          -> glGen(st, ins[2])
      [] ins[1] = "RETURN_HANDLES" -> ReturnHandles(st)
      [] ins[1] = "GLANS"          -> glAns(st, ins[2])
      [] ins[1] = "FAIL_IF_NULL"   -> FailIfNull(st)
      [] ins[1] = "RETURN_INT"     -> Return(st, PyInt(st.ans))
      [] ins[1] = "RETURN_STRING"  -> Return(st, PyBytes(<<st.ans>>))
      [] ins[1] = "GLLOGLEN"       -> glLogLength(st, ins[2])
      [] ins[1] = "CALLOC"         -> PyMem_Calloc(st)
      [] ins[1] = "GLFETCH"        -> glFetchLog(st, ins[2])
      [] ins[1] = "BYTES"          -> PyBytes_FromStringAndSize(st)
      [] ins[1] = "MALLOC"         -> PyMem_Malloc(st)
      [] ins[1] = "COPY"           -> Log(st, "mem", "copy", 0)
      [] ins[1] = "FREE"           -> PyMem_Free(st)
      [] ins[1] = "RETURN_OBJ"     -> Return(st, st.obj)
      [] ins[1] = "REQ_COPY_IMAGE" -> RequireCopyImage(st)
      [] ins[1] = "UPLOAD"         -> BufferUpload(st)
      [] ins[1] = "SET_CHECKING"   -> SetChecking(st)
      [] ins[1] = "GLEWINIT"       -> GlewInitCall(st)
      [] ins[1] = "ARB_TEST"       -> ARB_TEST(st, ins[2])

\* Runs the statements of a handler in order, up to its first return.
RECURSIVE Run(_, _, _)
Run(prog, i, st) ==
    IF st.done \/ i > Len(prog) THEN st
    ELSE Run(prog, i + 1, Step(prog[i], st))


\* ------------------------------------------------------- the handlers
\* Each handler is the sequence of the statements of its body, in source order.
enable_automatic_error_checking == <<<<"SET_CHECKING">>, <<"RETURN_NONE">>>>
Viewport == <<<<"PARSE">>, <<"GL", "glViewport">>, <<"CHECK_ERROR">>, <<"RETURN_NONE">>>>
ClearColor == <<<<"PARSE">>, <<"GL", "glClearColor">>, <<"CHECK_ERROR">>, <<"RETURN_NONE">>>>
Uniform2ui == <<<<"PARSE">>, <<"GL", "glUniform2ui">>, <<"CHECK_ERROR">>, <<"RETURN_NONE">>>>
Uniform1i == <<<<"PARSE">>, <<"GL", "glUniform1i">>, <<"CHECK_ERROR">>, <<"RETURN_NONE">>>>
Uniform2f == <<<<"PARSE">>, <<"GL", "glUniform2f">>, <<"CHECK_ERROR">>, <<"RETURN_NONE">>>>
Uniform4f == <<<<"PARSE">>, <<"GL", "glUniform4f">>, <<"CHECK_ERROR">>, <<"RETURN_NONE">>>>
Uniform3fv ==
    <<<<"PARSE">>, <<"ASPTR", 1>>, <<"GLP", "glUniform3fv">>, <<"CHECK_ERROR">>, <<"RETURN_NONE">>>>
CheckError == <<<<"CHECK_ERROR">>, <<"RETURN_NONE">>>>
glewInit ==
    <<<<"GLEWINIT">>, <<"ARB_TEST", "ARB_texture_storage">>,
      <<"ARB_TEST", "ARB_texture_buffer_object_rgb32">>, <<"RETURN_NONE">>>>
GetString == <<<<"ASULONG">>, <<"GLANS", "glGetString">>, <<"FAIL_IF_NULL">>, <<"RETURN_STRING">>>>
Clear ==
    <<<<"ASULONG">>, <<"BEGIN_ALLOW">>, <<"GL", "glClear">>, <<"END_ALLOW">>, <<"CHECK_ERROR">>,
      <<"RETURN_NONE">>>>
DrawArrays ==
    <<<<"PARSE">>, <<"BEGIN_ALLOW">>, <<"GL", "glDrawArrays">>, <<"END_ALLOW">>,
      <<"CHECK_ERROR">>, <<"RETURN_NONE">>>>
MultiDrawArrays ==
    <<<<"PARSE">>, <<"BEGIN_ALLOW">>, <<"ASPTR", 1>>, <<"ASPTR", 2>>,
      <<"GLP", "glMultiDrawArrays">>, <<"END_ALLOW">>, <<"CHECK_ERROR">>, <<"RETURN_NONE">>>>
DrawArraysInstanced ==
    <<<<"PARSE">>, <<"BEGIN_ALLOW">>, <<"GL", "glDrawArraysInstanced">>, <<"END_ALLOW">>,
      <<"CHECK_ERROR">>, <<"RETURN_NONE">>>>
CreateProgram == <<<<"GLANS", "glCreateProgram">>, <<"FAIL_IF_NULL">>, <<"RETURN_INT">>>>
AttachShader == <<<<"PARSE">>, <<"GL", "glAttachShader">>, <<"CHECK_ERROR">>, <<"RETURN_NONE">>>>
LinkProgram == <<<<"ASULONG">>, <<"GL", "glLinkProgram">>, <<"CHECK_ERROR">>, <<"RETURN_NONE">>>>
GetProgramiv == <<<<"PARSE">>, <<"GLANS", "glGetProgramiv">>, <<"CHECK_ERROR">>, <<"RETURN_INT">>>>
GetProgramInfoLog ==
    <<<<"ASULONG">>, <<"GLLOGLEN", "glGetProgramiv">>, <<"CALLOC">>,
      <<"GLFETCH", "glGetProgramInfoLog">>, <<"BYTES">>, <<"FREE">>, <<"RETURN_OBJ">>>>
GetShaderInfoLog ==
    <<<<"ASULONG">>, <<"GLLOGLEN", "glGetShaderiv">>, <<"CALLOC">>,
      <<"GLFETCH", "glGetShaderInfoLog">>, <<"BYTES">>, <<"FREE">>, <<"RETURN_OBJ">>>>
ActiveTexture == <<<<"ASLONG">>, <<"GL", "glActiveTexture">>, <<"CHECK_ERROR">>, <<"RETURN_NONE">>>>
DeleteProgram ==
    <<<<"ASULONG">>, <<"GL", "glDeleteProgram">>, <<"CHECK_ERROR">>, <<"RETURN_NONE">>>>
DeleteShader == <<<<"ASULONG">>, <<"GL", "glDeleteShader">>, <<"CHECK_ERROR">>, <<"RETURN_NONE">>>>
GenVertexArrays ==
    <<<<"ASULONG">>,
      <<"BATCH", "Generating more than 256 arrays in a single call is not supported">>,
      <<"GLGEN", "glGenVertexArrays">>, <<"CHECK_ERROR">>, <<"RETURN_HANDLES">>>>
GenTextures ==
    <<<<"ASULONG">>,
      <<"BATCH", "Generating more than 256 textures in a single call is not supported">>,
      <<"GLGEN", "glGenTextures">>, <<"CHECK_ERROR">>, <<"RETURN_HANDLES">>>>
GenBuffers ==
    <<<<"ASULONG">>,
      <<"BATCH", "Generating more than 256 buffers in a single call is not supported">>,
      <<"GLGEN", "glGenBuffers">>, <<"CHECK_ERROR">>, <<"RETURN_HANDLES">>>>
CreateShader == <<<<"ASLONG">>, <<"GLANS", "glCreateShader">>, <<"CHECK_ERROR">>, <<"RETURN_INT">>>>
ShaderSource == <<<<"PARSE">>, <<"GL", "glShaderSource">>, <<"CHECK_ERROR">>, <<"RETURN_NONE">>>>
CompileShader ==
    <<<<"ASULONG">>, <<"GL", "glCompileShader">>, <<"CHECK_ERROR">>, <<"RETURN_NONE">>>>
GetShaderiv == <<<<"PARSE">>, <<"GLANS", "glGetShaderiv">>, <<"CHECK_ERROR">>, <<"RETURN_INT">>>>
GetUniformLocation ==
    <<<<"PARSE">>, <<"GLANS", "glGetUniformLocation">>, <<"CHECK_ERROR">>, <<"RETURN_INT">>>>
GetAttribLocation ==
    <<<<"PARSE">>, <<"GLANS", "glGetAttribLocation">>, <<"CHECK_ERROR">>, <<"RETURN_INT">>>>
UseProgram == <<<<"ASULONG">>, <<"GL", "glUseProgram">>, <<"CHECK_ERROR">>, <<"RETURN_NONE">>>>
BindVertexArray ==
    <<<<"ASULONG">>, <<"GL", "glBindVertexArray">>, <<"CHECK_ERROR">>, <<"RETURN_NONE">>>>
GetIntegerv == <<<<"ASULONG">>, <<"GLANS", "glGetIntegerv">>, <<"CHECK_ERROR">>, <<"RETURN_INT">>>>
BindTexture == <<<<"PARSE">>, <<"GL", "glBindTexture">>, <<"CHECK_ERROR">>, <<"RETURN_NONE">>>>
TexStorage3D ==
    <<<<"PARSE">>, <<"BEGIN_ALLOW">>, <<"GL", "glTexStorage3D">>, <<"END_ALLOW">>,
      <<"CHECK_ERROR">>, <<"RETURN_NONE">>>>
CopyImageSubData ==
    <<<<"REQ_COPY_IMAGE">>, <<"PARSE">>, <<"BEGIN_ALLOW">>, <<"GL", "glCopyImageSubData">>,
      <<"END_ALLOW">>, <<"CHECK_ERROR">>, <<"RETURN_NONE">>>>
copy_image_sub_data ==
    <<<<"PARSE">>, <<"MALLOC">>, <<"BEGIN_ALLOW">>, <<"GL", "glBindTexture">>,
      <<"GL", "glGetTexImage">>, <<"GL", "glBindTexture">>, <<"GL", "glPixelStorei">>,
      <<"COPY">>, <<"GL", "glTexSubImage3D">>, <<"END_ALLOW">>, <<"FREE">>,
      <<"RETURN_NONE">>>>
TexSubImage3D ==
    <<<<"PARSE">>, <<"ASPTR", 1>>, <<"NULLCHECK">>, <<"BEGIN_ALLOW">>,
      <<"GLP", "glTexSubImage3D">>, <<"END_ALLOW">>, <<"CHECK_ERROR">>, <<"RETURN_NONE">>>>
GetTexImage ==
    <<<<"PARSE">>, <<"ASPTR", 1>>, <<"NULLCHECK">>, <<"BEGIN_ALLOW">>, <<"GLP", "glGetTexImage">>,
      <<"END_ALLOW">>, <<"CHECK_ERROR">>, <<"RETURN_NONE">>>>
NamedBufferData ==
    <<<<"PARSE">>, <<"ASPTR", 1>>, <<"NULLCHECK">>, <<"BEGIN_ALLOW">>, <<"UPLOAD">>,
      <<"END_ALLOW">>, <<"CHECK_ERROR">>, <<"RETURN_NONE">>>>
TexParameteri == <<<<"PARSE">>, <<"GL", "glTexParameteri">>, <<"CHECK_ERROR">>, <<"RETURN_NONE">>>>
PixelStorei == <<<<"PARSE">>, <<"GL", "glPixelStorei">>, <<"CHECK_ERROR">>, <<"RETURN_NONE">>>>
BindBuffer == <<<<"PARSE">>, <<"GL", "glBindBuffer">>, <<"CHECK_ERROR">>, <<"RETURN_NONE">>>>
TexBuffer == <<<<"PARSE">>, <<"GL", "glTexBuffer">>, <<"CHECK_ERROR">>, <<"RETURN_NONE">>>>
DeleteTexture ==
    <<<<"ASULONG">>, <<"GL", "glDeleteTextures">>, <<"CHECK_ERROR">>, <<"RETURN_NONE">>>>
DeleteBuffer == <<<<"ASULONG">>, <<"GL", "glDeleteBuffers">>, <<"CHECK_ERROR">>, <<"RETURN_NONE">>>>
BlendFunc == <<<<"PARSE">>, <<"GL", "glBlendFunc">>, <<"CHECK_ERROR">>, <<"RETURN_NONE">>>>
Enable == <<<<"ASLONG">>, <<"GL", "glEnable">>, <<"CHECK_ERROR">>, <<"RETURN_NONE">>>>
Disable == <<<<"ASLONG">>, <<"GL", "glDisable">>, <<"CHECK_ERROR">>, <<"RETURN_NONE">>>>
EnableVertexAttribArray ==
    <<<<"ASLONG">>, <<"GL", "glEnableVertexAttribArray">>, <<"CHECK_ERROR">>, <<"RETURN_NONE">>>>
VertexAttribPointer ==
    <<<<"PARSE">>, <<"ASPTR", 1>>, <<"GLP", "glVertexAttribPointer">>, <<"CHECK_ERROR">>,
      <<"RETURN_NONE">>>>


\* ------------------------------------------------- inputs of a call
Has(prog, op) == \E i \in 1..Len(prog) : prog[i][1] = op

\* The native calls a handler body holds (the buffer upload counted at its longest).
RECURSIVE NativeCalls(_, _)
NativeCalls(prog, i) ==
    IF i > Len(prog) THEN 0
    ELSE NativeCalls(prog, i + 1) +
         (IF prog[i][1] \in {"GL", "GLP", "GLGEN", "GLANS", "GLLOGLEN", "GLFETCH"} THEN 1
          ELSE IF prog[i][1] = "UPLOAD" THEN 3 ELSE 0)

BatchSizes == (0..MaxN) \cup {BatchLimit, BatchLimit + 1}

\* The pointer arguments a handler decodes (0, 1 or 2).
Pointers(prog) == Cardinality({i \in 1..Len(prog) : prog[i][1] = "ASPTR"})

\* The arguments tried: well typed or not, a batch size, null (0) or valid
\* (1) addresses, the truth value of the toggle's argument.
Args(prog) ==
    LET typed == Has(prog, "PARSE") \/ Has(prog, "ASULONG") \/ Has(prog, "ASLONG")
        good == [ok : {TRUE},
                 n : IF Has(prog, "BATCH") THEN BatchSizes ELSE {1},
                 ptr : {p \in [1..2 -> {0, 1}] : \A k \in 1..2 : k > Pointers(prog) => p[k] = 0},
                 truth : IF Has(prog, "SET_CHECKING") THEN {-1, 0, 1} ELSE {0}]
        bad == IF typed THEN {[ok |-> FALSE, n |-> 0, ptr |-> <<0, 0>>, truth |-> 0]} ELSE {}
    IN  good \cup bad

\* The driver profiles GLEW can find.
Profiles ==
    { {"ARB_texture_storage", "ARB_texture_buffer_object_rgb32", "ARB_copy_image", "VERSION_4_5"},
      {"ARB_texture_storage", "ARB_texture_buffer_object_rgb32"},
      {"ARB_texture_buffer_object_rgb32", "ARB_copy_image", "VERSION_4_5"},
      {"ARB_texture_storage"} }

\* What the environment decides during a call: which native call (if any)
\* records an error and which code, the value a query hands back, the order of
\* generated names, the info log, whether scratch allocation fails, and what
\* the bootstrap finds.
Oracles(prog) ==
    LET k == NativeCalls(prog, 1)
        base == [at : 0..k, code : DriverCodes \cup {GL_NO_ERROR},
                 ans : IF Has(prog, "GLANS") THEN 0..MaxAns ELSE {0},
                 desc : IF Has(prog, "GLGEN") THEN BOOLEAN ELSE {FALSE},
                 loglen : IF Has(prog, "GLLOGLEN") THEN 0..MaxLog ELSE {0},
                 w : IF Has(prog, "GLFETCH") THEN 0..MaxLog ELSE {0},
                 oom : IF Has(prog, "CALLOC") \/ Has(prog, "MALLOC") THEN BOOLEAN ELSE {FALSE},
                 loader : IF Has(prog, "GLEWINIT") THEN BOOLEAN ELSE {TRUE},
                 found : Profiles \cup {{}}]
    IN  {o \in base : /\ (o.at = 0) = (o.code = GL_NO_ERROR)
                      /\ o.w = 0 \/ o.w < o.loglen
                      /\ (Has(prog, "GLEWINIT") /\ o.loader) = (o.found # {})}

\* The state a handler starts in: the host lock held, no host error set, its
\* locals as the body initialises them.
Enter(name, a, o) ==
    [op |-> name, arg |-> a, orc |-> o, gil |-> TRUE, pyerr |-> NoErr, done |-> FALSE,
     ret |-> NULL, ev |-> <<>>, nat |-> 0, own |-> FALSE, queries |-> 0,
     n |-> 0, data |-> 0, null |-> FALSE, nullpass |-> FALSE, ans |-> 0,
     arrays |-> <<>>, written |-> <<>>, log_len |-> 0, reported |-> 0, buf |-> <<>>, cap |-> 0,
     limit |-> 0, fetched |-> FALSE, wrote |-> <<>>, overrun |-> FALSE, obj |-> NULL,
     allocs |-> 0, frees |-> 0,
     checking |-> enable_error_checking, glew |-> glew, caps |-> caps,
     glerr |-> glerr, issued |-> issued]

\* What is kept of a finished call (the environment's choices show only
\* through their effects).
Kept == {"op", "arg", "gil", "ret", "ev", "own", "queries", "nullpass", "written",
         "reported", "cap", "limit", "fetched", "wrote", "overrun", "allocs", "frees"}

Finished(st) == [f \in Kept |-> st[f]]

\* Between calls: no call is in progress and the host lock is held.
Idle == Finished(Enter("idle", [ok |-> TRUE, n |-> 0, ptr |-> <<0, 0>>, truth |-> 0], [at |-> 0]))

\* One call of a handler: the whole body runs, and the caller sees the result.
Call(name, prog) ==
    /\ last = Idle
    /\ Has(prog, "GLGEN") => issued <= MaxIssued
    /\ Has(prog, "GLEWINIT") => glew = "uninit"
    /\ \E a \in Args(prog), o \in Oracles(prog) :
         LET st == Run(prog, 1, Enter(name, a, o))
         IN  /\ enable_error_checking' = st.checking
             /\ glew' = st.glew
             /\ caps' = st.caps
             /\ glerr' = st.glerr
             /\ issued' = st.issued
             /\ pyerr' = st.pyerr
             /\ last' = Finished(st)

Init ==
    /\ enable_error_checking = 1
    /\ glew = "uninit"
    /\ caps = {}
    /\ glerr = <<>>
    /\ issued = 0
    /\ pyerr = NoErr
    /\ last = Idle

\* The caller takes the result (or handles the exception, which clears the
\* host error indicator) and is ready for its next call.
HostResumes ==
    /\ last # Idle
    /\ last' = Idle
    /\ pyerr' = NoErr
    /\ UNCHANGED <<enable_error_checking, glew, caps, glerr, issued>>

Next ==
    \/ HostResumes
    \/ Call("enable_automatic_error_checking", enable_automatic_error_checking)
    \/ Call("Viewport", Viewport)
    \/ Call("ClearColor", ClearColor)
    \/ Call("Uniform2ui", Uniform2ui)
    \/ Call("Uniform1i", Uniform1i)
    \/ Call("Uniform2f", Uniform2f)
    \/ Call("Uniform4f", Uniform4f)
    \/ Call("Uniform3fv", Uniform3fv)
    \/ Call("CheckError", CheckError)
    \/ Call("glewInit", glewInit)
    \/ Call("GetString", GetString)
    \/ Call("Clear", Clear)
    \/ Call("DrawArrays", DrawArrays)
    \/ Call("MultiDrawArrays", MultiDrawArrays)
    \/ Call("DrawArraysInstanced", DrawArraysInstanced)
    \/ Call("CreateProgram", CreateProgram)
    \/ Call("AttachShader", AttachShader)
    \/ Call("LinkProgram", LinkProgram)
    \/ Call("GetProgramiv", GetProgramiv)
    \/ Call("GetProgramInfoLog", GetProgramInfoLog)
    \/ Call("GetShaderInfoLog", GetShaderInfoLog)
    \/ Call("ActiveTexture", ActiveTexture)
    \/ Call("DeleteProgram", DeleteProgram)
    \/ Call("DeleteShader", DeleteShader)
    \/ Call("GenVertexArrays", GenVertexArrays)
    \/ Call("GenTextures", GenTextures)
    \/ Call("GenBuffers", GenBuffers)
    \/ Call("CreateShader", CreateShader)
    \/ Call("ShaderSource", ShaderSource)
    \/ Call("CompileShader", CompileShader)
    \/ Call("GetShaderiv", GetShaderiv)
    \/ Call("GetUniformLocation", GetUniformLocation)
    \/ Call("GetAttribLocation", GetAttribLocation)
    \/ Call("UseProgram", UseProgram)
    \/ Call("BindVertexArray", BindVertexArray)
    \/ Call("GetIntegerv", GetIntegerv)
    \/ Call("BindTexture", BindTexture)
    \/ Call("TexStorage3D", TexStorage3D)
    \/ Call("CopyImageSubData", CopyImageSubData)
    \/ Call("copy_image_sub_data", copy_image_sub_data)
    \/ Call("TexSubImage3D", TexSubImage3D)
    \/ Call("GetTexImage", GetTexImage)
    \/ Call("NamedBufferData", NamedBufferData)
    \/ Call("TexParameteri", TexParameteri)
    \/ Call("PixelStorei", PixelStorei)
    \/ Call("BindBuffer", BindBuffer)
    \/ Call("TexBuffer", TexBuffer)
    \/ Call("DeleteTexture", DeleteTexture)
    \/ Call("DeleteBuffer", DeleteBuffer)
    \/ Call("BlendFunc", BlendFunc)
    \/ Call("Enable", Enable)
    \/ Call("Disable", Disable)
    \/ Call("EnableVertexAttribArray", EnableVertexAttribArray)
    \/ Call("VertexAttribPointer", VertexAttribPointer)

Spec == Init /\ [][Next]_vars

\* The error translator on its own: the driver starts with any codes pending,
\* known or not, and the caller checks for errors and toggles the mode.
PendingQueues == UNION {[1..k -> AllCodes] : k \in 0..MaxPending}

InitTranslator ==
    /\ enable_error_checking = 1
    /\ glew = "uninit"
    /\ caps = {}
    /\ glerr \in PendingQueues
    /\ issued = 0
    /\ pyerr = NoErr
    /\ last = Idle

NextTranslator ==
    \/ HostResumes
    \/ Call("CheckError", CheckError)
    \/ Call("enable_automatic_error_checking", enable_automatic_error_checking)

SpecTranslator == InitTranslator /\ [][NextTranslator]_vars


\* ============================================================ claims
\* What the claims read off a finished call.
Called == last # Idle
Events(kind) == {i \in 1..Len(last.ev) : last.ev[i].k = kind}
NoNativeCall == Events("native") = {}
\* The error check after the call found nothing: no native call of this call
\* recorded an error and no query of the error state returned a code.
ReportsNoError ==
    /\ ~last.own
    /\ \A i \in Events("query") : last.ev[i].v = GL_NO_ERROR
Failed == last.ret = NULL
Succeeded == last.ret # NULL

GenOps == {"GenVertexArrays", "GenTextures", "GenBuffers"}

C2_OversizedBatchRefused ==
    [][(/\ last'.op \in GenOps
        /\ last'.arg.ok
        /\ last'.arg.n > BatchLimit)
       => /\ last'.ret = NULL
          /\ pyerr'.type = "ValueError"
          /\ \A i \in 1..Len(last'.ev) : last'.ev[i].k \notin {"native", "query"}
          /\ glerr' = glerr
          /\ issued' = issued]_vars

\* A request for 257 names was refused while error checking was off and an
\* error was pending in the driver.
C2_Witness ==
    /\ last.op \in GenOps
    /\ last.arg.ok
    /\ last.arg.n = BatchLimit + 1
    /\ enable_error_checking = 0
    /\ glerr # <<>>
    /\ Failed


\* The pointer-as-integer arguments each handler takes.
PtrArgs(op) ==
    CASE op \in {"TexSubImage3D", "GetTexImage", "NamedBufferData", "Uniform3fv",
                 "VertexAttribPointer"} -> 1
      [] op = "MultiDrawArrays" -> 2
      [] OTHER -> 0
\* A well-typed call that passed a null address.
NullPassed == last.arg.ok /\ \E k \in 1..PtrArgs(last.op) : last.arg.ptr[k] = 0

\* C3: every handler that takes a pointer-as-integer argument refuses a null
\* address with a type error, not a native error, and issues no native call.
C3_NullPointerRefused ==
    NullPassed => /\ Failed
                  /\ pyerr.type = "TypeError"
                  /\ NoNativeCall

\* A call the handler itself has no usage objection to: well typed, no null
\* address, a batch within the limit, its capability present, scratch memory
\* available; the bootstrap and the toggle are not such calls.
WellFormedCall ==
    /\ Called
    /\ last.op \notin {"glewInit", "enable_automatic_error_checking"}
    /\ last.arg.ok
    /\ ~NullPassed
    /\ last.arg.n <= BatchLimit
    /\ last.op = "CopyImageSubData" => "ARB_copy_image" \in caps
    /\ last.op \in {"GetProgramInfoLog", "GetShaderInfoLog", "copy_image_sub_data"}
          => last.allocs = 1

\* C4: with error checking off every well-formed call returns successfully and
\* never queries the native error state, whatever the driver did; with it on
\* again, a call whose native call left an error fails.
C4_ModeDecidesChecking ==
    WellFormedCall =>
        /\ enable_error_checking = 0 => Succeeded /\ last.queries = 0
        /\ enable_error_checking = 1 /\ last.own => Failed

\* C5: with error checking on, every call that issued a native call queried
\* the native error state after its last native call, and failed if a query
\* returned a code or one of its own native calls recorded an error.
C5_EveryNativeCallChecked ==
    (WellFormedCall /\ enable_error_checking = 1 /\ ~NoNativeCall) =>
        /\ \E q \in Events("query") : \A i \in Events("native") : i < q
        /\ ~ReportsNoError => Failed

BlockingOps == {"Clear", "DrawArrays", "MultiDrawArrays", "DrawArraysInstanced",
                "TexStorage3D", "CopyImageSubData", "TexSubImage3D", "GetTexImage",
                "NamedBufferData"}
\* binds, parameter sets, uniform sets
StateOnlyOps == {"BindTexture", "BindBuffer", "BindVertexArray", "TexParameteri",
                 "PixelStorei", "Uniform2ui", "Uniform1i", "Uniform2f", "Uniform4f",
                 "Uniform3fv"}

\* The code a checked call's query of the error state returned.
Queried == last.ev[CHOOSE q \in Events("query") : TRUE].v
Checked == last.op = "CheckError" /\ Events("query") # {}

\* C6 (as amended): the translator maps each native code to one category: no
\* error gives no failure; invalid enum, value, operation and incomplete
\* framebuffer give the argument category; out-of-memory gives the memory
\* category; stack underflow and overflow give the overflow category; any other
\* code gives the unknown-error category with one fixed message, which does not
\* carry the code.
C6_TranslatorCategories ==
    Checked =>
        CASE Queried = GL_NO_ERROR -> pyerr = NoErr /\ Succeeded
          [] Queried \in {GL_INVALID_ENUM, GL_INVALID_VALUE, GL_INVALID_OPERATION,
                          GL_INVALID_FRAMEBUFFER_OPERATION} ->
                pyerr.type = "ValueError" /\ Failed
          [] Queried = GL_OUT_OF_MEMORY -> pyerr.type = "MemoryError" /\ Failed
          [] Queried \in {GL_STACK_UNDERFLOW, GL_STACK_OVERFLOW} ->
                pyerr.type = "OverflowError" /\ Failed
          [] OTHER -> /\ pyerr = Err("RuntimeError", "An unknown OpenGL error occurred.")
                      /\ Failed

\* A code the translator has no case for was queried and reported.
C6_Witness ==
    /\ Checked
    /\ Queried \in UnknownCodes
    /\ pyerr.type = "RuntimeError"
    /\ Failed

\* C6 (as claimed): in addition, the failure for an unknown code carries the
\* raw code: it tells that code from every other unknown code.
C6_UnknownCarriesRawCode ==
    (Checked /\ Queried \notin KnownCodes \cup {GL_NO_ERROR}) =>
        /\ pyerr.type = "RuntimeError"
        /\ \A d \in UnknownCodes \ {Queried} : pyerr # Translate(d)

\* C7: in a blocking handler the host lock is not held while a native call
\* runs, and is held again when the error state is queried and when the
\* result is built; a state-only handler holds it throughout.
C7_LockDiscipline ==
    /\ last.op \in BlockingOps =>
          /\ \A i \in Events("native") : ~last.ev[i].gil
          /\ \A i \in Events("query") : last.ev[i].gil
          /\ last.gil
    /\ last.op \in StateOnlyOps =>
          /\ \A i \in 1..Len(last.ev) : last.ev[i].gil
          /\ last.gil

\* A buffer upload ran its native calls without the lock, queried the error
\* state with it, and failed on the error the upload left.
C7_Witness ==
    /\ last.op = "NamedBufferData"
    /\ \E i \in Events("native") : ~last.ev[i].gil /\ last.ev[i].v # GL_NO_ERROR
    /\ \E q \in Events("query") : last.ev[q].gil /\ last.ev[q].v # GL_NO_ERROR
    /\ last.gil
    /\ Failed

\* C8: a call with an argument of the wrong type fails before any native call
\* is attempted and touches no native state.
C8_UsageErrorBeforeNative ==
    (Called /\ ~last.arg.ok) =>
        /\ Failed
        /\ \A i \in 1..Len(last.ev) : last.ev[i].k \notin {"native", "query"}

\* C9: once the bootstrap has failed, no later call runs a native call: every
\* later call is refused.
C9_NoCallAfterFailedBootstrap ==
    (glew = "failed" /\ Called
        /\ last.op \notin {"glewInit", "enable_automatic_error_checking"}) =>
        /\ Failed
        /\ NoNativeCall

LogOps == {"GetProgramInfoLog", "GetShaderInfoLog"}

\* C10: log retrieval, for every reported length L >= 0: the scratch buffer
\* holds L plus a positive margin, the fetch is told a limit within that
\* capacity and writes within it, the result is exactly the bytes the fetch
\* reported as written (none when L is 0), and the buffer is freed exactly
\* once whenever it was allocated (and never otherwise).
C10_LogRetrieval ==
    last.op \in LogOps =>
        /\ last.allocs <= 1
        /\ last.frees = last.allocs
        /\ last.allocs = 0 => Failed /\ pyerr.type = "MemoryError"
        /\ last.allocs = 1 =>
              /\ last.cap > last.reported
              /\ last.limit <= last.cap
              /\ ~last.overrun
              /\ last.fetched => last.ret = PyBytes(last.wrote)
              /\ last.fetched /\ last.reported = 0 => last.ret = PyBytes(<<>>)

\* A log of the greatest length tried was fetched whole and the buffer freed.
C10_Witness ==
    /\ last.op \in LogOps
    /\ last.reported = MaxLog
    /\ last.fetched
    /\ Len(last.wrote) = MaxLog - 1
    /\ last.ret = PyBytes(last.wrote)
    /\ last.frees = 1

IsPrefix(s, t) == Len(s) <= Len(t) /\ \A i \in 1..Len(s) : s[i] = t[i]

\* C11: a call queries the native error state at most once, and a query takes
\* away only the code it returns: of k >= 1 codes pending before a call that
\* checks, the oldest is reported as the call's failure and the other k - 1
\* are still pending after it, in order; a call that does not check takes none
\* away. So a code recorded while checking was off stays pending until a
\* later check reports it.
C11_OneQueryPerCheck ==
    [][last' # Idle =>
        /\ last'.queries <= 1
        /\ last'.queries = Cardinality({i \in 1..Len(last'.ev) : last'.ev[i].k = "query"})
        /\ last'.queries = 0 => IsPrefix(glerr, glerr')
        /\ (last'.queries = 1 /\ glerr # <<>>) =>
              /\ IsPrefix(Tail(glerr), glerr')
              /\ Len(glerr') <= Len(glerr)
              /\ \E q \in 1..Len(last'.ev) :
                    last'.ev[q].k = "query" /\ last'.ev[q].v = Head(glerr)
              /\ pyerr' = Translate(Head(glerr))
              /\ last'.ret = NULL]_vars

\* With checking on, CheckError reported a code that was pending before it
\* and left another one pending.
C11_Witness ==
    /\ last.op = "CheckError"
    /\ enable_error_checking = 1
    /\ last.queries = 1
    /\ Queried # GL_NO_ERROR
    /\ pyerr = Translate(Queried)
    /\ Failed
    /\ Len(glerr) = MaxPending - 1
    /\ glerr # <<>>

\* C12: the result of a call and the host error indicator agree, in both
\* modes: a call returns failure exactly when it leaves a host error set. So
\* CreateProgram and GetString do not fail when the error query reports no
\* error, and a call whose argument conversion failed does not return a
\* success value.
C12_OutcomeAgreesWithHostError ==
    Called => (Failed <=> pyerr # NoErr)

\* C13: while a call has released the host lock it calls no host-runtime
\* function: arguments are decoded, and scratch memory is allocated and freed,
\* only while the lock is held.
C13_NoHostCallWhileUnlocked ==
    \A i \in Events("host") : last.ev[i].gil

====
